---- MODULE Spec2Model ----
(***************************************************************************)
(* Catalog-management API (ecommerce_api): the product import handler, the *)
(* product detail fetch and the soft-delete handler of ProductViewSet,     *)
(* over the Product and Variant tables and their uniqueness constraints.   *)
(*                                                                         *)
(* Money is an integer number of cents.  A JSON value of the request body  *)
(* is a record [t, v]: t is its JSON type ("absent" when the key is        *)
(* missing, "null", "str", "num") and v the number it denotes.  A variant  *)
(* id is a record [t, s]: t is "str" or "int" and s its text.              *)
(***************************************************************************)
EXTENDS Integers, Sequences, FiniteSets, TLC

VARIABLES products, variants, pc, req, loc, resp

vars == <<products, variants, pc, req, loc, resp>>

(***************************************************************************)
(* Bounds and input domains                                                *)
(***************************************************************************)
MaxVariants == 2

Procs == {"r1", "r2"}

\* Merchants are provisioned outside the API and never mutated by it.
Merchants == {[id |-> 1, store_url |-> "s1"], [id |-> 2, store_url |-> "s2"]}

Absent == [t |-> "absent", v |-> 0]
Null == [t |-> "null", v |-> 0]
Str(n) == [t |-> "str", v |-> n]
Num(n) == [t |-> "num", v |-> n]

NoSku == [t |-> "absent", s |-> ""]
NoText == [t |-> "absent", s |-> ""]
Text(s) == [t |-> "str", s |-> s]

\* Titles are sequences of characters, so that icontains can be computed.
T1 == <<"W", "i">>
T2 == <<"w", "o">>

\* Variant payloads of the import body (ImportVariantSerializer's fields).
VariantInputs ==
  { [id |-> [t |-> "str", s |-> "1"], title |-> "A", sku |-> NoSku,
     price |-> Str(1000), compare_at_price |-> Absent, inventory_quantity |-> 5],
    [id |-> [t |-> "str", s |-> "2"], title |-> "B", sku |-> Text("K"),
     price |-> Str(800), compare_at_price |-> Str(1200), inventory_quantity |-> 3],
    [id |-> [t |-> "str", s |-> "1"], title |-> "B", sku |-> Text("K"),
     price |-> Num(500), compare_at_price |-> Str(0), inventory_quantity |-> 0],
    [id |-> [t |-> "int", s |-> "1"], title |-> "A", sku |-> NoSku,
     price |-> Str(800), compare_at_price |-> Num(0), inventory_quantity |-> 5],
    [id |-> [t |-> "str", s |-> "2"], title |-> "A", sku |-> NoSku,
     price |-> Str(-100), compare_at_price |-> Null, inventory_quantity |-> 3],
    [id |-> [t |-> "str", s |-> "2"], title |-> "A", sku |-> NoSku,
     price |-> Num(1000), compare_at_price |-> Num(-200), inventory_quantity |-> -1] }

SmallVariantInputs ==
  { [id |-> [t |-> "str", s |-> "1"], title |-> "A", sku |-> NoSku,
     price |-> Str(1000), compare_at_price |-> Absent, inventory_quantity |-> 5],
    [id |-> [t |-> "str", s |-> "1"], title |-> "B", sku |-> Text("K"),
     price |-> Num(500), compare_at_price |-> Str(0), inventory_quantity |-> 0] }

SeqsUpTo(S, n) == UNION {[1..k -> S] : k \in 0..n}

\* The product-level fields of the import body: with and without the
\* optional description and product_type keys.
ProductInputs ==
  { [title |-> T1, description |-> Text("d"), product_type |-> Text("k")],
    [title |-> T2, description |-> NoText, product_type |-> NoText] }

ImportBodies(stores, metas, vins) ==
  { [store_url |-> s, id |-> "P1", title |-> m.title, description |-> m.description,
     product_type |-> m.product_type, variants |-> vs] :
       s \in stores, m \in metas, vs \in SeqsUpTo(vins, MaxVariants) }

Payloads == ImportBodies({"s1", "sX"}, ProductInputs, VariantInputs)

PayloadsConc ==
  ImportBodies({"s1"}, {m \in ProductInputs : m.title = T1}, SmallVariantInputs)

NoParams == [merchant_id |-> 0, active |-> "none", search |-> <<>>]

\* Query parameters: merchant_id 0 stands for "not supplied".
QueryParams ==
  [merchant_id : {0, 1, 2}, active : {"none", "True", "false", "yes"},
   search : {<<>>, <<"w">>, <<"O">>}]

ProductIds == {1, 2}

\* Import bodies for the listing scenarios: two products of the first
\* merchant and one of the second, one variant each.
PayloadsQuery ==
  { [store_url |-> k[1], id |-> k[2], title |-> k[3], description |-> NoText,
     product_type |-> NoText,
     variants |-> <<[id |-> [t |-> "str", s |-> "1"], title |-> "A", sku |-> NoSku,
                     price |-> Str(1000), compare_at_price |-> Absent,
                     inventory_quantity |-> 5]>>] :
       k \in {<<"s1", "P1", T1>>, <<"s1", "P2", T2>>, <<"s2", "P1", T2>>} }

PayloadsBulk == {b \in PayloadsQuery : b.store_url = "s1"}

\* The largest page number requested.
MaxPage == 2

\* Query parameters of a list request.  merchant_id 3 references no merchant;
\* page 0 and page_size 0 stand for "not supplied".
NoListParams == [merchant_id |-> 0, active |-> "none", search |-> <<>>,
                 page |-> 0, page_size |-> 0]

ListParams ==
  [merchant_id : {0, 1, 2, 3}, active : {"none", "True", "false", "yes"},
   search : {<<>>, <<"w">>, <<"O">>}, page : 0..MaxPage, page_size : {0, 1}]
    \cup [merchant_id : {1}, active : {"none"}, search : {<<>>}, page : 0..MaxPage,
          page_size : {200}]

ListParamsBulk ==
  [merchant_id : {1}, active : {"none", "True"}, search : {<<>>}, page : {0},
   page_size : {0}]

\* product_ids of a bulk request: empty, repeated, and unknown ids included.
IdLists == {<<>>, <<1>>, <<2, 1>>, <<1, 1>>, <<1, 2, 9>>}

NoBody == [store_url |-> "", id |-> "", title |-> <<>>, description |-> NoText,
           product_type |-> NoText, variants |-> <<>>]

NoReq == [op |-> "none", body |-> NoBody, pk |-> 0, params |-> NoParams,
          product_ids |-> <<>>, active |-> FALSE]

(***************************************************************************)
(* Rows                                                                    *)
(***************************************************************************)
DEFAULT_BASE_PRICE == 0

NoProduct == [id |-> 0, merchant |-> 0, external_id |-> "", title |-> <<>>,
              description |-> "", product_type |-> "", active |-> FALSE,
              base_price |-> 0]

\* A response: its status, the created flag, the product id, the variants of
\* a detail body, the exception an error message reports, the count and the
\* results (product ids) of a list page together with the query parameters
\* of the request it answers, and the updated_count of a bulk update.
NoResp == [op |-> "none", status |-> 0, created |-> FALSE, pid |-> 0, variants |-> {},
           error |-> "", count |-> 0, results |-> <<>>, params |-> NoListParams,
           updated_count |-> 0]

NoLoc == [product |-> NoProduct, created |-> FALSE, inserted |-> FALSE,
          wrote |-> FALSE, variants_to_create |-> <<>>, wv |-> {}]

(***************************************************************************)
(* Conversions and validation                                              *)
(***************************************************************************)
\* Decimal(str(x)): the number a JSON string or number denotes.
Decimal(raw) == raw.v

\* Python truthiness of variant_data.get('compare_at_price') on the raw
\* (unconverted) payload value: None and numeric zero are falsy, every
\* non-empty string is truthy.
truthy(raw) ==
  CASE raw.t = "absent" -> FALSE
    [] raw.t = "null" -> FALSE
    [] raw.t = "num" -> raw.v # 0
    [] raw.t = "str" -> TRUE

\* dict.get(key, '') on an optional text key.
get_or_blank(x) == IF x.t = "absent" THEN "" ELSE x.s

\* What a CharField column stores for a raw id: its text.
to_char(rawid) == rawid.s

\* Python "x in set_of_str" on the raw id: an int never equals a str.
py_in(rawid, strs) == rawid.t = "str" /\ rawid.s \in strs

ImportVariantSerializer(v) ==
  /\ v.id.t \in {"str", "int"}
  /\ v.price.t \in {"str", "num"}
  /\ v.compare_at_price.t \in {"absent", "null", "str", "num"}
  /\ v.inventory_quantity >= 0

validate_store_url(url) == \E m \in Merchants : m.store_url = url

\* Every body considered carries the 'id', 'title' and 'variants' keys; the
\* variants are validated with many=True and the default allow_empty, so an
\* empty list is valid.  The value returned is the unconverted dict.
validate_product(body) ==
  \A i \in 1..Len(body.variants) : ImportVariantSerializer(body.variants[i])

is_valid(body) == validate_store_url(body.store_url) /\ validate_product(body)

MinOf(S) == CHOOSE x \in S : \A y \in S : x <= y

\* Fault model: the price of the first variant instead of the minimum.
first_price(body) == Decimal(body.variants[1].price)

min_price(body) == MinOf({Decimal(body.variants[i].price) : i \in 1..Len(body.variants)})

retail_price_of(v) ==
  IF truthy(v.compare_at_price) THEN Decimal(v.compare_at_price) ELSE Decimal(v.price)

new_variant(product, v) ==
  [id |-> 0, product |-> product.id, external_id |-> to_char(v.id), name |-> v.title,
   sku |-> get_or_blank(v.sku), price |-> Decimal(v.price),
   retail_price |-> retail_price_of(v), quantity |-> v.inventory_quantity,
   active |-> TRUE]

(***************************************************************************)
(* Storage: uniqueness constraints, primary keys, pending writes           *)
(***************************************************************************)
\* Fault model: the table has no uniqueness constraint.
product_no_constraint(rows) == TRUE

product_unique_together(rows) ==
  \A a, b \in rows :
    (a.merchant = b.merchant /\ a.external_id = b.external_id) => a.id = b.id

\* Fault model: the table has no uniqueness constraint.
variant_no_constraint(rows) == TRUE

variant_unique_together(rows) ==
  \A a, b \in rows :
    (a.product = b.product /\ a.external_id = b.external_id) => a.id = b.id

MaxId(rows) == IF rows = {} THEN 0 ELSE CHOOSE n \in {x.id : x \in rows} :
                                         \A x \in rows : x.id <= n

\* Rows written by the open transactions of the other requests.
pending_products(r) == {loc[q].product : q \in {q \in Procs \ {r} : loc[q].wrote}}

pending_variants(r) == UNION {loc[q].wv : q \in Procs \ {r}}

\* A write to a row another open transaction has written waits for it.
row_locked(r, id) == \E p \in pending_products(r) : p.id = id

save(rows, row) == {p \in rows : p.id # row.id} \cup {row}

(***************************************************************************)
(* ProductViewSet.get_queryset                                             *)
(***************************************************************************)
lower_char(c) == IF c = "W" THEN "w" ELSE IF c = "O" THEN "o" ELSE c

lower(s) == [i \in 1..Len(s) |-> lower_char(s[i])]

lower_word(w) == IF w = "True" THEN "true" ELSE w

icontains(title, search) ==
  \E i \in 1..(Len(title) - Len(search) + 1) :
    SubSeq(lower(title), i, i + Len(search) - 1) = lower(search)

\* Fault model: the merchant_id filter is not applied.
get_queryset_all_merchants(action, params) ==
  IF action = "list" /\ params.merchant_id = 0 THEN {}
  ELSE
    LET q2 == IF params.active # "none" /\ lower_word(params.active) = "true"
              THEN {p \in products : p.active}
              ELSE IF params.active # "none" /\ lower_word(params.active) = "false"
              THEN {p \in products : ~p.active}
              ELSE products
        q3 == IF params.search # <<>>
              THEN {p \in q2 : icontains(p.title, params.search)}
              ELSE q2
    IN q3

get_queryset(action, params) ==
  IF action = "list" /\ params.merchant_id = 0 THEN {}
  ELSE
    LET q1 == IF params.merchant_id # 0
              THEN {p \in products : p.merchant = params.merchant_id}
              ELSE products
        q2 == IF params.active # "none" /\ lower_word(params.active) = "true"
              THEN {p \in q1 : p.active}
              ELSE IF params.active # "none" /\ lower_word(params.active) = "false"
              THEN {p \in q1 : ~p.active}
              ELSE q1
        q3 == IF params.search # <<>>
              THEN {p \in q2 : icontains(p.title, params.search)}
              ELSE q2
    IN q3

variants_of(pid) == {v \in variants : v.product = pid}

(***************************************************************************)
(* Initial state: the two tables are empty, no request is in progress      *)
(***************************************************************************)
Init ==
  /\ products = {}
  /\ variants = {}
  /\ pc = [r \in Procs |-> "idle"]
  /\ req = [r \in Procs |-> NoReq]
  /\ loc = [r \in Procs |-> NoLoc]
  /\ resp = [r \in Procs |-> NoResp]

HTTP_200_OK == 200
HTTP_201_CREATED == 201
HTTP_400_BAD_REQUEST == 400
HTTP_404_NOT_FOUND == 404
HTTP_500_INTERNAL_SERVER_ERROR == 500

Response(op, status, created, pid, vs, error) ==
  [NoResp EXCEPT !.op = op, !.status = status, !.created = created, !.pid = pid,
                 !.variants = vs, !.error = error]

merchant_of(url) == CHOOSE m \in Merchants : m.store_url = url

\* The request ends: its response is returned, its locals are dropped.
finish(r, response) ==
  /\ pc' = [pc EXCEPT ![r] = "idle"]
  /\ req' = [req EXCEPT ![r] = NoReq]
  /\ loc' = [loc EXCEPT ![r] = NoLoc]
  /\ resp' = [resp EXCEPT ![r] = response]

\* Fault model: no atomic block, the writes made before the exception stay.
import_except_autocommit(r, exc) ==
  /\ finish(r, Response("import",
                 IF exc = "Merchant.DoesNotExist" THEN HTTP_404_NOT_FOUND
                 ELSE IF exc = "IntegrityError" THEN HTTP_400_BAD_REQUEST
                 ELSE HTTP_500_INTERNAL_SERVER_ERROR,
                 FALSE, 0, {}, exc))
  /\ products' = IF loc[r].wrote
                 THEN {p \in products : p.id # loc[r].product.id} \cup {loc[r].product}
                 ELSE products
  /\ variants' = variants \cup loc[r].wv

\* An exception leaves the atomic block: every write of the transaction is
\* rolled back, the except clauses of import_product choose the status.
import_except(r, exc) ==
  /\ finish(r, Response("import",
                 IF exc = "Merchant.DoesNotExist" THEN HTTP_404_NOT_FOUND
                 ELSE IF exc = "IntegrityError" THEN HTTP_400_BAD_REQUEST
                 ELSE HTTP_500_INTERNAL_SERVER_ERROR,
                 FALSE, 0, {}, exc))
  /\ UNCHANGED <<products, variants>>

(***************************************************************************)
(* ProductViewSet.import_product                                           *)
(***************************************************************************)
\* serializer.is_valid() and Merchant.objects.get(store_url=...)
import_product(r, body) ==
  /\ pc[r] = "idle"
  /\ IF ~is_valid(body)
     THEN /\ finish(r, Response("import", HTTP_400_BAD_REQUEST, FALSE, 0, {}, "ValidationError"))
          /\ UNCHANGED <<products, variants>>
     ELSE IF ~(\E m \in Merchants : m.store_url = body.store_url)
     THEN import_except(r, "Merchant.DoesNotExist")
     ELSE /\ pc' = [pc EXCEPT ![r] = "get_or_create"]
          /\ req' = [req EXCEPT ![r] = [NoReq EXCEPT !.op = "import",
                                                     !.body = body]]
          /\ loc' = [loc EXCEPT ![r] = NoLoc]
          /\ resp' = [resp EXCEPT ![r] = NoResp]
          /\ UNCHANGED <<products, variants>>

product_key(r) ==
  [merchant |-> merchant_of(req[r].body.store_url).id, external_id |-> req[r].body.id]

lookup(rows, key) ==
  {p \in rows : p.merchant = key.merchant /\ p.external_id = key.external_id}

\* get_or_create: the lookup (self.get)
get_or_create_get(r) ==
  /\ pc[r] = "get_or_create"
  /\ LET found == lookup(products, product_key(r))
     IN IF Cardinality(found) > 1
        THEN import_except(r, "MultipleObjectsReturned")
        ELSE /\ IF found = {}
                THEN /\ pc' = [pc EXCEPT ![r] = "create"]
                     /\ loc' = loc
                ELSE /\ pc' = [pc EXCEPT ![r] = "update"]
                     /\ loc' = [loc EXCEPT ![r].product = CHOOSE p \in found : TRUE]
             /\ UNCHANGED <<products, variants, req, resp>>

created_product(r) ==
  [id |-> MaxId(products \cup pending_products(r)) + 1,
   merchant |-> product_key(r).merchant,
   external_id |-> req[r].body.id,
   title |-> req[r].body.title,
   description |-> get_or_blank(req[r].body.description),
   product_type |-> get_or_blank(req[r].body.product_type),
   active |-> TRUE,
   base_price |-> DEFAULT_BASE_PRICE]

\* get_or_create: the insert (self.create) when no row with the key exists
get_or_create_create(r) ==
  /\ pc[r] = "create"
  /\ product_unique_together(products \cup pending_products(r) \cup {created_product(r)})
  /\ pc' = [pc EXCEPT ![r] = "variants"]
  /\ loc' = [loc EXCEPT ![r].product = created_product(r), ![r].created = TRUE,
                        ![r].inserted = TRUE, ![r].wrote = TRUE]
  /\ UNCHANGED <<products, variants, req, resp>>

\* get_or_create: the insert hits the uniqueness constraint on a row another
\* request committed after the lookup; the second lookup finds that row.
get_or_create_reget(r) ==
  /\ pc[r] = "create"
  /\ ~product_unique_together(products \cup {created_product(r)})
  /\ pc' = [pc EXCEPT ![r] = "update"]
  /\ loc' = [loc EXCEPT ![r].product = CHOOSE p \in lookup(products, product_key(r)) : TRUE]
  /\ UNCHANGED <<products, variants, req, resp>>

\* get_or_create: the insert hits the uniqueness constraint and the second
\* lookup, reading the transaction's older snapshot, still finds no row:
\* the IntegrityError is raised again.
get_or_create_raise(r) ==
  /\ pc[r] = "create"
  /\ ~product_unique_together(products \cup {created_product(r)})
  /\ import_except(r, "IntegrityError")

\* Fault model: the re-import also sets the product active again.
import_update_reactivate(r) ==
  /\ pc[r] = "update"
  /\ ~row_locked(r, loc[r].product.id)
  /\ pc' = [pc EXCEPT ![r] = "variants"]
  /\ loc' = [loc EXCEPT ![r].product =
               [@ EXCEPT !.title = req[r].body.title,
                         !.description = get_or_blank(req[r].body.description),
                         !.product_type = get_or_blank(req[r].body.product_type),
                         !.active = TRUE],
                        ![r].wrote = TRUE]
  /\ UNCHANGED <<products, variants, req, resp>>

\* if not created: overwrite the metadata and product.save()
import_update(r) ==
  /\ pc[r] = "update"
  /\ ~row_locked(r, loc[r].product.id)
  /\ pc' = [pc EXCEPT ![r] = "variants"]
  /\ loc' = [loc EXCEPT ![r].product =
               [@ EXCEPT !.title = req[r].body.title,
                         !.description = get_or_blank(req[r].body.description),
                         !.product_type = get_or_blank(req[r].body.product_type)],
                        ![r].wrote = TRUE]
  /\ UNCHANGED <<products, variants, req, resp>>

existing_variant_ids(r) == {v.external_id : v \in variants_of(loc[r].product.id)}

variants_to_create(r) ==
  LET body == req[r].body
      fresh(v) == ~py_in(v.id, existing_variant_ids(r))
      todo == SelectSeq(body.variants, fresh)
  IN [i \in 1..Len(todo) |-> new_variant(loc[r].product, todo[i])]

\* the loop that prepares variants_to_create
import_prepare(r) ==
  /\ pc[r] = "variants"
  /\ pc' = [pc EXCEPT ![r] = "bulk_create"]
  /\ loc' = [loc EXCEPT ![r].variants_to_create = variants_to_create(r)]
  /\ UNCHANGED <<products, variants, req, resp>>

\* The rows bulk_create inserts: the prepared variants with fresh keys.
batch(r) ==
  LET todo == loc[r].variants_to_create
      base == MaxId(variants \cup pending_variants(r))
  IN {[todo[i] EXCEPT !.id = base + i] : i \in 1..Len(todo)}

\* The insert waits while a row of the batch collides only with a row that
\* an open transaction of another request has inserted.
waits_for_variant(r) ==
  /\ variant_unique_together(variants \cup batch(r))
  /\ ~variant_unique_together(pending_variants(r) \cup batch(r))

\* Variant.objects.bulk_create(variants_to_create)
import_bulk_create(r) ==
  /\ pc[r] = "bulk_create"
  /\ ~waits_for_variant(r)
  /\ IF ~variant_unique_together(variants \cup batch(r))
     THEN import_except(r, "IntegrityError")
     ELSE /\ pc' = [pc EXCEPT ![r] = "base_price"]
          /\ loc' = [loc EXCEPT ![r].wv = batch(r)]
          /\ UNCHANGED <<products, variants, req, resp>>

\* min(...) over the payload's variants, product.base_price, product.save()
import_base_price(r) ==
  /\ pc[r] = "base_price"
  /\ ~row_locked(r, loc[r].product.id)
  /\ IF Len(req[r].body.variants) = 0
     THEN import_except(r, "ValueError")
     ELSE /\ pc' = [pc EXCEPT ![r] = "respond"]
          /\ loc' = [loc EXCEPT ![r].product.base_price = min_price(req[r].body),
                                ![r].wrote = TRUE]
          /\ UNCHANGED <<products, variants, req, resp>>

\* Fault model: the commit overwrites the stored variants the payload names.
import_respond_upsert(r) ==
  /\ pc[r] = "respond"
  /\ products' = save(products, loc[r].product)
  /\ variants' =
       LET body == req[r].body
           pid == loc[r].product.id
           stale == {v \in variants_of(pid) :
                      \E i \in 1..Len(body.variants) :
                        to_char(body.variants[i].id) = v.external_id}
           base == MaxId(variants \cup loc[r].wv)
       IN (variants \ stale) \cup loc[r].wv \cup
          {[new_variant(loc[r].product, body.variants[i]) EXCEPT !.id = base + i] :
             i \in {i \in 1..Len(body.variants) :
                      \E v \in stale : v.external_id = to_char(body.variants[i].id)}}
  /\ finish(r, Response("import",
                 IF loc[r].created THEN HTTP_201_CREATED ELSE HTTP_200_OK,
                 loc[r].created, loc[r].product.id, {}, ""))

\* The atomic block is left by the return: the transaction commits.
import_respond(r) ==
  /\ pc[r] = "respond"
  /\ products' = save(products, loc[r].product)
  /\ variants' = variants \cup loc[r].wv
  /\ finish(r, Response("import",
                 IF loc[r].created THEN HTTP_201_CREATED ELSE HTTP_200_OK,
                 loc[r].created, loc[r].product.id, {}, ""))

InTransaction == {"get_or_create", "create", "update", "variants", "bulk_create",
                  "base_price", "respond"}

\* Any other exception raised by the storage layer inside the atomic block
\* (for instance "database is locked"): except Exception.
import_storage_error(r) ==
  /\ pc[r] \in InTransaction
  /\ import_except(r, "OperationalError")

(***************************************************************************)
(* ProductViewSet.retrieve (GET /products/{id}/)                           *)
(***************************************************************************)
get_object(action, params, pk) == {p \in get_queryset(action, params) : p.id = pk}

\* get_object() raises Http404, which the framework turns into a 404.
retrieve(r, pk, params) ==
  /\ pc[r] = "idle"
  /\ IF get_object("retrieve", params, pk) = {}
     THEN finish(r, Response("retrieve", HTTP_404_NOT_FOUND, FALSE, pk, {}, "Http404"))
     ELSE finish(r, Response("retrieve", HTTP_200_OK, FALSE, pk, variants_of(pk), ""))
  /\ UNCHANGED <<products, variants>>

(***************************************************************************)
(* ProductViewSet.remove_product (POST /products/{id}/remove/)             *)
(***************************************************************************)
\* The except clauses of remove_product.
remove_except(r, pk, exc) ==
  /\ finish(r, Response("remove",
                 IF exc = "Product.DoesNotExist" THEN HTTP_404_NOT_FOUND
                 ELSE HTTP_500_INTERNAL_SERVER_ERROR,
                 FALSE, pk, {}, exc))
  /\ UNCHANGED <<products, variants>>

\* product = self.get_object(): raises Http404 when no row matches.
remove_product(r, pk) ==
  /\ pc[r] = "idle"
  /\ IF get_object("remove_product", NoParams, pk) = {}
     THEN remove_except(r, pk, "Http404")
     ELSE /\ pc' = [pc EXCEPT ![r] = "remove_save"]
          /\ req' = [req EXCEPT ![r] = [NoReq EXCEPT !.op = "remove", !.pk = pk]]
          /\ loc' = [loc EXCEPT ![r] =
                       [NoLoc EXCEPT !.product =
                          CHOOSE p \in get_object("remove_product", NoParams, pk) : TRUE]]
          /\ resp' = [resp EXCEPT ![r] = NoResp]
          /\ UNCHANGED <<products, variants>>

\* Fault model: the row is deleted instead of deactivated.
remove_save_delete(r) ==
  /\ pc[r] = "remove_save"
  /\ ~row_locked(r, loc[r].product.id)
  /\ products' = {p \in products : p.id # loc[r].product.id}
  /\ finish(r, Response("remove", HTTP_200_OK, FALSE, loc[r].product.id, {}, ""))
  /\ UNCHANGED variants

\* product.active = False; product.save()
remove_save(r) ==
  /\ pc[r] = "remove_save"
  /\ ~row_locked(r, loc[r].product.id)
  /\ products' = save(products, [loc[r].product EXCEPT !.active = FALSE])
  /\ finish(r, Response("remove", HTTP_200_OK, FALSE, loc[r].product.id, {}, ""))
  /\ UNCHANGED variants

(***************************************************************************)
(* ProductViewSet.list (GET /products/) and ProductPagination              *)
(***************************************************************************)
PAGE_SIZE == 20
max_page_size == 100

\* get_page_size: a missing, zero or negative page_size falls back to the
\* default, a larger one is cut off at max_page_size.
get_page_size(params) ==
  IF params.page_size <= 0 THEN PAGE_SIZE
  ELSE IF params.page_size > max_page_size THEN max_page_size
  ELSE params.page_size

\* The ids of the rows in the order the query yields them (primary key).
RECURSIVE order_by_pk(_)
order_by_pk(rows) ==
  IF rows = {} THEN <<>>
  ELSE LET first == CHOOSE p \in rows : \A q \in rows : p.id <= q.id
       IN <<first.id>> \o order_by_pk(rows \ {first})

\* Paginator.num_pages: an empty list still has its first page.
num_pages(count, per_page) ==
  IF count = 0 THEN 1 ELSE (count + per_page - 1) \div per_page

page_number(params) == IF params.page = 0 THEN 1 ELSE params.page

ListResponse(status, params, count, results, error) ==
  [NoResp EXCEPT !.op = "list", !.status = status, !.params = params,
                 !.count = count, !.results = results, !.error = error]

\* paginate_queryset: a page number outside 1..num_pages raises NotFound.
paginate_queryset(rows, params) ==
  LET ids == order_by_pk(rows)
      per_page == get_page_size(params)
      number == page_number(params)
      last == IF number * per_page < Len(ids) THEN number * per_page ELSE Len(ids)
  IN IF number > num_pages(Len(ids), per_page)
     THEN ListResponse(HTTP_404_NOT_FOUND, params, 0, <<>>, "NotFound")
     ELSE ListResponse(HTTP_200_OK, params, Len(ids),
                       SubSeq(ids, (number - 1) * per_page + 1, last), "")

\* Fault model: the merchant_id parameter is not checked before the query.
list_unchecked(r, params) ==
  /\ pc[r] = "idle"
  /\ finish(r, paginate_queryset(get_queryset("list", params), params))
  /\ UNCHANGED <<products, variants>>

list(r, params) ==
  /\ pc[r] = "idle"
  /\ IF params.merchant_id = 0
     THEN finish(r, ListResponse(HTTP_400_BAD_REQUEST, params, 0, <<>>,
                                 "merchant_id query parameter is required"))
     ELSE IF ~(\E m \in Merchants : m.id = params.merchant_id)
     THEN finish(r, ListResponse(HTTP_404_NOT_FOUND, params, 0, <<>>,
                                 "Merchant.DoesNotExist"))
     ELSE finish(r, paginate_queryset(get_queryset("list", params), params))
  /\ UNCHANGED <<products, variants>>

(***************************************************************************)
(* ProductViewSet.bulk_activate (POST /products/bulk-activate/)            *)
(***************************************************************************)
\* product_ids = ListField(allow_empty=False)
BulkActivateSerializer(product_ids) == Len(product_ids) > 0

\* Fault model: only the first id of the list is matched.
id__first(product_ids) ==
  {p \in products : Len(product_ids) > 0 /\ p.id = product_ids[1]}

\* Product.objects.filter(id__in=product_ids)
id__in(product_ids) ==
  {p \in products : \E i \in 1..Len(product_ids) : product_ids[i] = p.id}

BulkResponse(status, updated_count, error) ==
  [NoResp EXCEPT !.op = "bulk", !.status = status, !.updated_count = updated_count,
                 !.error = error]

bulk_activate(r, product_ids, active) ==
  /\ pc[r] = "idle"
  /\ IF ~BulkActivateSerializer(product_ids)
     THEN finish(r, BulkResponse(HTTP_400_BAD_REQUEST, 0, "ValidationError"))
     ELSE /\ pc' = [pc EXCEPT ![r] = "bulk_update"]
          /\ req' = [req EXCEPT ![r] = [NoReq EXCEPT !.op = "bulk",
                                                     !.product_ids = product_ids,
                                                     !.active = active]]
          /\ loc' = [loc EXCEPT ![r] = NoLoc]
          /\ resp' = [resp EXCEPT ![r] = NoResp]
  /\ UNCHANGED <<products, variants>>

\* Fault model: the rows are updated one by one, a statement each.
bulk_update_row_by_row(r) ==
  /\ pc[r] = "bulk_update"
  /\ LET one == {p \in products : p.id = Head(req[r].product_ids)}
         rest == Tail(req[r].product_ids)
     IN /\ \A p \in one : ~row_locked(r, p.id)
        /\ products' = (products \ one)
                          \cup {[p EXCEPT !.active = req[r].active] : p \in one}
        /\ IF rest = <<>>
           THEN finish(r, BulkResponse(HTTP_200_OK, Cardinality(one), ""))
           ELSE /\ req' = [req EXCEPT ![r].product_ids = rest]
                /\ UNCHANGED <<pc, loc, resp>>
  /\ UNCHANGED variants

\* The single UPDATE statement; update() returns the number of rows matched.
bulk_update(r) ==
  /\ pc[r] = "bulk_update"
  /\ LET matched == id__in(req[r].product_ids)
     IN /\ \A p \in matched : ~row_locked(r, p.id)
        /\ products' = (products \ matched)
                          \cup {[p EXCEPT !.active = req[r].active] : p \in matched}
        /\ finish(r, BulkResponse(HTTP_200_OK, Cardinality(matched), ""))
  /\ UNCHANGED variants

(***************************************************************************)
(* Requests handled one at a time                                          *)
(***************************************************************************)
Next ==
  \/ \E body \in Payloads : import_product("r1", body)
  \/ get_or_create_get("r1")
  \/ get_or_create_create("r1")
  \/ import_update("r1")
  \/ import_prepare("r1")
  \/ import_bulk_create("r1")
  \/ import_base_price("r1")
  \/ import_respond("r1")
  \/ import_storage_error("r1")
  \/ \E pk \in ProductIds, params \in QueryParams : retrieve("r1", pk, params)
  \/ \E pk \in ProductIds : remove_product("r1", pk)
  \/ remove_save("r1")

Spec == Init /\ [][Next]_vars

(***************************************************************************)
(* Two requests handled concurrently, interleaved statement by statement   *)
(***************************************************************************)
NextConc ==
  \E r \in Procs :
    \/ \E body \in PayloadsConc : import_product(r, body)
    \/ get_or_create_get(r)
    \/ get_or_create_create(r)
    \/ get_or_create_reget(r)
    \/ get_or_create_raise(r)
    \/ import_update(r)
    \/ import_prepare(r)
    \/ import_bulk_create(r)
    \/ import_base_price(r)
    \/ import_respond(r)
    \/ import_storage_error(r)
    \/ \E pk \in ProductIds : retrieve(r, pk, NoParams)
    \/ \E pk \in ProductIds : remove_product(r, pk)
    \/ remove_save(r)

SpecConc == Init /\ [][NextConc]_vars

(***************************************************************************)
(* Listing and bulk updates over the products of two merchants, requests   *)
(* handled one at a time                                                   *)
(***************************************************************************)
NextQuery ==
  \/ \E body \in PayloadsQuery : import_product("r1", body)
  \/ get_or_create_get("r1")
  \/ get_or_create_create("r1")
  \/ import_update("r1")
  \/ import_prepare("r1")
  \/ import_bulk_create("r1")
  \/ import_base_price("r1")
  \/ import_respond("r1")
  \/ \E params \in ListParams : list("r1", params)
  \/ \E product_ids \in IdLists, active \in BOOLEAN :
       bulk_activate("r1", product_ids, active)
  \/ bulk_update("r1")

SpecQuery == Init /\ [][NextQuery]_vars

(***************************************************************************)
(* Bulk updates interleaved with imports and readers                       *)
(***************************************************************************)
NextBulk ==
  \E r \in Procs :
    \/ \E body \in PayloadsBulk : import_product(r, body)
    \/ get_or_create_get(r)
    \/ get_or_create_create(r)
    \/ get_or_create_reget(r)
    \/ get_or_create_raise(r)
    \/ import_update(r)
    \/ import_prepare(r)
    \/ import_bulk_create(r)
    \/ import_base_price(r)
    \/ import_respond(r)
    \/ \E params \in ListParamsBulk : list(r, params)
    \/ \E pk \in ProductIds : retrieve(r, pk, NoParams)
    \/ \E product_ids \in IdLists, active \in BOOLEAN :
         bulk_activate(r, product_ids, active)
    \/ bulk_update(r)

SpecBulk == Init /\ [][NextBulk]_vars

(***************************************************************************)
(* Properties                                                              *)
(***************************************************************************)
same_product_key(a, b) == a.merchant = b.merchant /\ a.external_id = b.external_id

same_variant_key(a, b) == a.product = b.product /\ a.external_id = b.external_id

\* The step in which request r leaves the atomic block by its return.
commits(r) == pc[r] = "respond" /\ pc'[r] = "idle" /\ resp'[r].error = ""

\* The step in which request r, inside import_product, ends.
import_ends(r) == req[r].op = "import" /\ pc'[r] = "idle"

\* C1: in every reachable state, under every interleaving of imports, there
\* is at most one stored Product per (merchant, external_id) and at most one
\* stored Variant per (product, external_id).
C1_UniqueRows ==
  /\ \A a, b \in products : same_product_key(a, b) => a = b
  /\ \A a, b \in variants : same_variant_key(a, b) => a = b

\* An import was refused by a uniqueness constraint while rows are stored.
C1_Witness ==
  \E r \in Procs :
    /\ resp[r].op = "import"
    /\ resp[r].error = "IntegrityError"
    /\ products # {}
    /\ variants # {}

\* C2: the commit of a successful import leaves the product's base_price
\* equal to the minimum price over every variant of that call's payload.
C2_BasePriceIsPayloadMin ==
  [][\A r \in Procs :
      commits(r) =>
        LET prices == {Decimal(req[r].body.variants[i].price) :
                         i \in 1..Len(req[r].body.variants)}
        IN \E p \in products' :
             /\ p.id = resp'[r].pid
             /\ p.base_price \in prices
             /\ \A x \in prices : p.base_price <= x]_vars

\* A successful re-import left a base_price above the price of a variant
\* stored by an earlier import.
C2_Witness ==
  \E r \in Procs :
    /\ resp[r].op = "import"
    /\ resp[r].status = HTTP_200_OK
    /\ \E p \in products :
         /\ p.id = resp[r].pid
         /\ \E v \in variants_of(p.id) : v.price < p.base_price

\* C3: no step changes or removes a stored variant, and a step adds only
\* variants whose (product, external_id) was not stored before.
C3_VariantsInsertOnly ==
  [][/\ \A v \in variants : v \in variants'
     /\ \A w \in variants' \ variants :
          \A v \in variants : ~same_variant_key(v, w)]_vars

\* A re-import succeeded whose payload carried only an already stored
\* variant id, with a price other than the stored one: the product has a
\* single variant, and its price is not the base_price of that payload.
C3_Witness ==
  \E r \in Procs :
    /\ resp[r].op = "import"
    /\ resp[r].status = HTTP_200_OK
    /\ \E p \in products :
         /\ p.id = resp[r].pid
         /\ Cardinality(variants_of(p.id)) = 1
         /\ \E v \in variants_of(p.id) : v.price # p.base_price

\* The retail price the fallback rule gives a payload variant.
expected_retail_price(v) ==
  IF v.compare_at_price.t \in {"str", "num"} /\ Decimal(v.compare_at_price) # 0
  THEN Decimal(v.compare_at_price)
  ELSE Decimal(v.price)

\* C4: every variant a committed import inserts has retail_price equal to
\* the payload's compare_at_price when that is present, non-null and
\* non-zero, and equal to the payload's price otherwise.
C4_RetailPriceFallback ==
  [][\A r \in Procs :
      commits(r) =>
        \A w \in variants' \ variants :
          \E i \in 1..Len(req[r].body.variants) :
            /\ to_char(req[r].body.variants[i].id) = w.external_id
            /\ w.retail_price = expected_retail_price(req[r].body.variants[i])]_vars

\* C5: a step in which an import returns an error leaves the stored
\* products and variants as they are, and so does every step of an import
\* before its commit: an import that fails has changed nothing.
C5_FailedImportChangesNothing ==
  [][\A r \in Procs :
      /\ (pc'[r] = "idle" /\ resp'[r].op = "import" /\ resp'[r].status >= 400
            /\ resp'[r] # resp[r])
           => (products' = products /\ variants' = variants)
      /\ (req[r].op = "import" /\ ~commits(r))
           => (products' = products /\ variants' = variants)]_vars

\* An import failed inside its transaction, after the step that creates the
\* product, and no product is stored.
C5_Witness ==
  \E r \in Procs :
    /\ resp[r].op = "import"
    /\ resp[r].error \in {"ValueError", "IntegrityError"}
    /\ products = {}

\* C6: an import whose variants list is empty is rejected by validation:
\* no import that has passed validation carries an empty list, and none
\* ends in an internal error raised on it.
C6_EmptyVariantsRejected ==
  \A r \in Procs :
    /\ req[r].op = "import" => Len(req[r].body.variants) > 0
    /\ resp[r].op = "import" => resp[r].error # "ValueError"

\* The stored state is the one an import of this body leaves.
imported_before(body, p) ==
  /\ p.title = body.title
  /\ p.description = get_or_blank(body.description)
  /\ p.product_type = get_or_blank(body.product_type)
  /\ {[v EXCEPT !.id = 0] : v \in variants_of(p.id)} =
       {new_variant(p, body.variants[i]) : i \in 1..Len(body.variants)}

\* C7: an import that passed validation and meets no storage failure ends
\* with 201 and created when the merchant had no product of that
\* external_id; and, when the stored product is the one an earlier import
\* of the same payload left, it ends with 200 and not created, leaves one
\* product row with the payload's title, description and product_type,
\* and leaves the variant rows as they were.
C7_ImportTwice ==
  [][\A r \in Procs :
      (import_ends(r) /\ resp'[r].error # "OperationalError") =>
        LET body == req[r].body
            before == lookup(products, product_key(r))
            after == lookup(products', product_key(r))
        IN /\ before = {} =>
                (resp'[r].status = HTTP_201_CREATED /\ resp'[r].created)
           /\ (\E p \in before : imported_before(body, p)) =>
                /\ resp'[r].status = HTTP_200_OK
                /\ ~resp'[r].created
                /\ Cardinality(after) = 1
                /\ variants' = variants
                /\ \A p \in after :
                     /\ p.title = body.title
                     /\ p.description = get_or_blank(body.description)
                     /\ p.product_type = get_or_blank(body.product_type)]_vars

\* Request r found no product at its lookup, and a concurrent import has
\* committed the product before r's insert.
lost_race(r) == pc[r] = "create" /\ lookup(products, product_key(r)) # {}

C9_RemoveMissingIsNotFound ==
  \A r \in Procs :
    (resp[r].op = "remove" /\ \A p \in products : p.id # resp[r].pid) =>
      resp[r].status = HTTP_404_NOT_FOUND

\* C10: a detail fetch answers 200 with all stored variants of the product
\* when a product with the id exists, whatever the query parameters, and
\* 404 only when none exists.
C10_DetailIgnoresFilters ==
  \A r \in Procs :
    resp[r].op = "retrieve" =>
      IF \E p \in products : p.id = resp[r].pid
      THEN resp[r].status = HTTP_200_OK /\ resp[r].variants = variants_of(resp[r].pid)
      ELSE resp[r].status = HTTP_404_NOT_FOUND

\* C12: every stored variant has retail_price >= 0 and quantity >= 0.
C12_NonNegativeVariants ==
  \A v \in variants : v.retail_price >= 0 /\ v.quantity >= 0

\* C16: a remove of an existing product never ends at its lookup; its save
\* answers 200 and changes nothing but that product's active flag, which it
\* leaves false: no product or variant row is removed or otherwise changed.
C16_RemoveIsSoftAndIdempotent ==
  [][\A r \in Procs :
      /\ (pc[r] = "idle" /\ pc'[r] = "idle" /\ resp'[r].op = "remove"
            /\ resp'[r] # resp[r])
           => \A p \in products : p.id # resp'[r].pid
      /\ (pc[r] = "remove_save" /\ pc'[r] # pc[r]) =>
           /\ resp'[r].status = HTTP_200_OK
           /\ variants' = variants
           /\ Cardinality(products') = Cardinality(products)
           /\ \A p \in products :
                IF p.id = loc[r].product.id
                THEN [p EXCEPT !.active = FALSE] \in products'
                ELSE p \in products']_vars

\* A repeated remove is under way: the product it has read is already
\* inactive, and its variants are still stored.
C16_Witness ==
  \E r \in Procs :
    /\ pc[r] = "remove_save"
    /\ ~loc[r].product.active
    /\ loc[r].product \in products
    /\ variants_of(loc[r].product.id) # {}

\* C19: the commit of an import leaves the active flag of a product that
\* existed before as it was, and stores a product it created as active.
C19_ImportKeepsActive ==
  [][\A r \in Procs :
      commits(r) =>
        \A q \in products' :
          q.id = resp'[r].pid =>
            IF \E p \in products : p.id = q.id
            THEN \A p \in products : p.id = q.id => q.active = p.active
            ELSE q.active]_vars

\* A re-import succeeded on a product that is, and stays, inactive.
C19_Witness ==
  \E r \in Procs :
    /\ resp[r].op = "import"
    /\ resp[r].status = HTTP_200_OK
    /\ \E p \in products : p.id = resp[r].pid /\ ~p.active

\* C11: a list request for an existing merchant whose page number is greater
\* than the last page is answered 200 with an empty results list.
C11_PageBeyondLastIsEmpty ==
  \A r \in Procs :
    (/\ resp[r].op = "list"
     /\ \E m \in Merchants : m.id = resp[r].params.merchant_id
     /\ page_number(resp[r].params)
          > num_pages(Cardinality(get_queryset("list", resp[r].params)),
                      get_page_size(resp[r].params)))
      => resp[r].status = HTTP_200_OK /\ resp[r].results = <<>>

\* C13: the update of a bulk request answers 200, flips active to the
\* requested value on exactly the stored products whose id is in the list,
\* changes no other product, field or variant, and reports the number of
\* distinct stored products in the list; unknown ids raise nothing.  A bulk
\* request with an empty list never reaches the update: a bulk request that
\* ends without it is answered 400 ValidationError and changes nothing.
C13_BulkSetsExactlyTheListed ==
  [][\A r \in Procs :
      /\ pc[r] = "bulk_update" => req[r].product_ids # <<>>
      /\ (pc[r] = "bulk_update" /\ pc'[r] = "idle") =>
           LET ids == {req[r].product_ids[i] : i \in DOMAIN req[r].product_ids}
               targets == {p \in products : p.id \in ids}
           IN /\ resp'[r].status = HTTP_200_OK
              /\ resp'[r].error = ""
              /\ resp'[r].updated_count = Cardinality(targets)
              /\ products' = {IF p \in targets
                               THEN [p EXCEPT !.active = req[r].active]
                               ELSE p : p \in products}
              /\ variants' = variants
      /\ (pc[r] = "idle" /\ pc'[r] = "idle" /\ resp'[r].op = "bulk"
            /\ resp'[r] # resp[r]) =>
           /\ resp'[r].status = HTTP_400_BAD_REQUEST
           /\ resp'[r].error = "ValidationError"
           /\ products' = products
           /\ variants' = variants]_vars

\* A bulk deactivation reported two updated products: both are inactive and
\* a third product, not in the list, is still active.
C13_Witness ==
  \E r \in Procs :
    /\ resp[r].op = "bulk"
    /\ resp[r].status = HTTP_200_OK
    /\ resp[r].updated_count = 2
    /\ \E a, b, c \in products :
         /\ a.id = 1 /\ ~a.active
         /\ b.id = 2 /\ ~b.active
         /\ c.id = 3 /\ c.active

\* C14: a list response for an existing merchant is either the requested
\* page of exactly the products of that merchant that pass the active
\* filter ("True" and "false" filter, any other value does not) and whose
\* title contains the search string whatever the case, with their count, or
\* a 404 for a page beyond the last one; so the pages together hold exactly
\* those products and never a product of another merchant.
C14_ListIsTheFilteredSet ==
  \A r \in Procs :
    (resp[r].op = "list" /\ \E m \in Merchants : m.id = resp[r].params.merchant_id) =>
      LET params == resp[r].params
          expected ==
            {p \in products :
               /\ p.merchant = params.merchant_id
               /\ params.active = "True" => p.active
               /\ params.active = "false" => ~p.active
               /\ params.search # <<>> => icontains(p.title, params.search)}
          ids == order_by_pk(expected)
          per_page == get_page_size(params)
          number == page_number(params)
      IN IF (number - 1) * per_page < Len(ids) \/ number = 1
         THEN /\ resp[r].status = HTTP_200_OK
              /\ resp[r].count = Cardinality(expected)
              /\ resp[r].results =
                   [i \in 1..(IF number * per_page < Len(ids)
                              THEN per_page
                              ELSE Len(ids) - (number - 1) * per_page)
                      |-> ids[(number - 1) * per_page + i]]
         ELSE resp[r].status = HTTP_404_NOT_FOUND

\* A filtered, searched list returned a product while a product of another
\* merchant matches the same search.
C14_Witness ==
  \E r \in Procs :
    /\ resp[r].op = "list"
    /\ resp[r].status = HTTP_200_OK
    /\ resp[r].params.active \in {"True", "false"}
    /\ resp[r].params.search # <<>>
    /\ Len(resp[r].results) > 0
    /\ \E p \in products :
         /\ p.merchant # resp[r].params.merchant_id
         /\ icontains(p.title, resp[r].params.search)

C17_BulkIsOneWrite ==
  [][\A r \in Procs :
      (pc[r] = "bulk_update" /\ (pc'[r] # pc[r] \/ req'[r] # req[r])) =>
        /\ pc'[r] = "idle"
        /\ \A p \in products :
             (\E i \in DOMAIN req[r].product_ids : req[r].product_ids[i] = p.id)
               => [p EXCEPT !.active = req[r].active] \in products']_vars

\* A bulk deactivation of two products has completed, both are inactive,
\* while the other request holds the list of active products it read
\* before the update, with both of them in it.
C17_Witness ==
  \E r, q \in Procs :
    /\ r # q
    /\ resp[r].op = "bulk"
    /\ resp[r].updated_count = 2
    /\ \A p \in products : ~p.active
    /\ resp[q].op = "list"
    /\ resp[q].params.active = "True"
    /\ Len(resp[q].results) = 2

\* C18: the commit of an import leaves the committed active flag of its
\* product as it is, and the save of a remove leaves the committed title,
\* description, product_type and base_price of its product as they are.
C18_NoStaleOverwrite ==
  [][\A r \in Procs :
      /\ commits(r) =>
           \A p \in products, q \in products' :
             (p.id = resp'[r].pid /\ q.id = p.id) => q.active = p.active
      /\ (pc[r] = "remove_save" /\ pc'[r] = "idle") =>
           \A p \in products, q \in products' :
             q.id = p.id =>
               /\ q.title = p.title
               /\ q.description = p.description
               /\ q.product_type = p.product_type
               /\ q.base_price = p.base_price]_vars

====
